---- MODULE Spec2Model ----
(***************************************************************************)
(* Chatbay analyzer: gallery fetch -> vision model call -> eBay CSV rows.  *)
(* Two revisions of the service are modelled side by side:                 *)
(*   "v49"  src/action_handler.py  (retry wrapper, sync/async analysis)    *)
(*   "v58"  src/app.py             (photo sanitizer, full-header rows)     *)
(* A string is a sequence of one-character strings; text whose characters  *)
(* no function inspects (fixed literals, markup) is a one-element sequence *)
(* holding the literal, so every cell value is a sequence of strings.      *)
(***************************************************************************)
EXTENDS Integers, Sequences, FiniteSets, TLC

\* ------------------------------------------------------------------------
\* Bounds of the model
MaxGroups == 3

\* ------------------------------------------------------------------------
\* Python string primitives
UPPER == <<"A","B","C","D","E","F","G","H","I","J","K","L","M","N","O","P","Q","R","S","T","U","V","W","X","Y","Z">>
LOWER == <<"a","b","c","d","e","f","g","h","i","j","k","l","m","n","o","p","q","r","s","t","u","v","w","x","y","z">>
DIGITS == <<"0","1","2","3","4","5","6","7","8","9">>

Range(s) == {s[i] : i \in DOMAIN s}

LowerCh(c) ==
  IF \E i \in 1..26 : UPPER[i] = c THEN LOWER[CHOOSE i \in 1..26 : UPPER[i] = c] ELSE c

\* str.lower()
Lower(s) == [i \in DOMAIN s |-> LowerCh(s[i])]

\* s[a..b] (empty when a > b)
Slice(s, a, b) == IF a > b THEN <<>> ELSE SubSeq(s, a, b)

\* str.strip(): drop leading and trailing blanks
Strip(s) ==
  LET nb == {i \in DOMAIN s : s[i] # " "}
      Min(S) == CHOOSE x \in S : \A y \in S : x <= y
      Max(S) == CHOOSE x \in S : \A y \in S : x >= y
  IN IF nb = {} THEN <<>> ELSE SubSeq(s, Min(nb), Max(nb))

\* sub in s
Contains(sub, s) ==
  \E i \in 1..(Len(s) - Len(sub) + 1) : SubSeq(s, i, i + Len(sub) - 1) = sub

\* s[:n]
Take(s, n) == IF n <= 0 THEN <<>> ELSE SubSeq(s, 1, IF n < Len(s) THEN n ELSE Len(s))

\* str(n) for a small non-negative integer
RECURSIVE IntToStr(_)
IntToStr(n) ==
  IF n < 10 THEN <<DIGITS[n + 1]>> ELSE IntToStr(n \div 10) \o <<DIGITS[(n % 10) + 1]>>

\* sep.join(list), each element and sep being a string
RECURSIVE Join(_, _)
Join(sep, list) ==
  IF list = <<>> THEN <<>>
  ELSE IF Len(list) = 1 THEN list[1]
  ELSE list[1] \o sep \o Join(sep, Tail(list))

\* [list[i] for i in idx], idx a set of positions: a filtering comprehension
KeepAt(list, idx) ==
  LET nth(k) == CHOOSE i \in idx : Cardinality({j \in idx : j <= i}) = k
  IN [k \in 1..Cardinality(idx) |-> list[nth(k)]]

Max2(a, b) == IF a >= b THEN a ELSE b
Min2(a, b) == IF a <= b THEN a ELSE b

\* ------------------------------------------------------------------------
\* Configuration of src/action_handler.py (environment defaults)

DEFAULT_CONDITION == <<"p", "r", "e", "o", "w", "n", "e", "d">>
DEFAULT_LOCATION == <<"Middletown, CT, USA">>
DEFAULT_SHIP_PROFILE == <<"7.99 FLAT">>
DEFAULT_RET_PROFILE == <<"No returns accepted">>
DEFAULT_PAY_PROFILE == <<"eBay Payments">>
MAX_RETRIES == 5
\* the asyncio path runs when ASYNC_CONCURRENCY > 1 (the default 1 turns it
\* off): the gate of the async path has 2 slots here
ASYNC_CONCURRENCY == 2
\* waits are counted in half seconds: SLEEP_BETWEEN_BATCHES = 6.0 s
SLEEP_BETWEEN_BATCHES == 12

\* CATEGORY_MAP in insertion order: <<keyword, category id>>
CATEGORY_MAP == <<
  <<<<"t", "-", "s", "h", "i", "r", "t">>, <<"1", "5", "6", "8", "7">>>>,
  <<<<"s", "h", "i", "r", "t">>, <<"1", "5", "6", "8", "7">>>>,
  <<<<"s", "w", "e", "a", "t", "s", "h", "i", "r", "t">>, <<"1", "5", "5", "2", "2", "6">>>>,
  <<<<"h", "o", "o", "d", "i", "e">>, <<"1", "5", "5", "2", "2", "6">>>>,
  <<<<"j", "a", "c", "k", "e", "t">>, <<"5", "7", "9", "8", "8">>>>,
  <<<<"p", "a", "n", "t", "s">>, <<"5", "7", "9", "8", "9">>>>,
  <<<<"j", "e", "a", "n", "s">>, <<"1", "1", "4", "8", "3">>>>,
  <<<<"s", "h", "o", "r", "t", "s">>, <<"1", "5", "6", "9", "0">>>>,
  <<<<"u", "n", "d", "e", "r", "w", "e", "a", "r">>, <<"1", "1", "5", "0", "7">>>>,
  <<<<"l", "i", "n", "g", "e", "r", "i", "e">>, <<"1", "1", "5", "1", "4">>>>,
  <<<<"h", "a", "t">>, <<"1", "6", "3", "5", "7", "1">>>>,
  <<<<"c", "a", "p">>, <<"1", "6", "3", "5", "7", "1">>>>,
  <<<<"b", "a", "g">>, <<"1", "6", "9", "2", "9", "1">>>>,
  <<<<"t", "o", "t", "e">>, <<"1", "6", "9", "2", "9", "1">>>>,
  <<<<"p", "a", "t", "c", "h">>, <<"1", "5", "6", "5", "2", "1">>>>,
  <<<<"s", "t", "i", "c", "k", "e", "r">>, <<"1", "6", "5", "3", "2", "6">>>>,
  <<<<"b", "u", "t", "t", "o", "n">>, <<"1", "0", "9", "6", "0">>>>,
  <<<<"m", "a", "g", "a", "z", "i", "n", "e">>, <<"2", "8", "0">>>>,
  <<<<"b", "o", "o", "k">>, <<"2", "6", "1", "1", "8", "6">>>>,
  <<<<"p", "o", "s", "t", "e", "r">>, <<"1", "4", "0">>>>,
  <<<<"t", "o", "o", "l">>, <<"6", "3", "1">>>>,
  <<<<"l", "a", "m", "p">>, <<"1", "1", "2", "5", "8", "1">>>>,
  <<<<"d", "e", "c", "o", "r">>, <<"1", "0", "0", "3", "3">>>>,
  <<<<"w", "a", "l", "l", "e", "t">>, <<"4", "5", "2", "5", "8">>>>
>>

DEFAULT_CATEGORY == <<"1", "5", "6", "8", "7">>

\* first keyword (in table order) contained in the lowered text
match_category_id(text) ==
  IF text = <<>> THEN DEFAULT_CATEGORY
  ELSE LET lower == Lower(text)
           hits == {i \in DOMAIN CATEGORY_MAP : Contains(CATEGORY_MAP[i][1], lower)}
       IN IF hits = {} THEN DEFAULT_CATEGORY
          ELSE CATEGORY_MAP[CHOOSE i \in hits : \A j \in hits : i <= j][2]

C_new == <<"n", "e", "w">>
C_preowned == <<"p", "r", "e", "o", "w", "n", "e", "d">>
C_parts == <<"p", "a", "r", "t", "s">>
CONDITION_ID_MAP == <<<<C_new, 1000>>, <<C_preowned, 3000>>, <<C_parts, 7000>>>>

\* dict.get(key, default) on a sequence of <<key, value>> pairs
MapGet(map, key, default) ==
  IF \E i \in DOMAIN map : map[i][1] = key
  THEN map[CHOOSE i \in DOMAIN map : map[i][1] = key][2]
  ELSE default

normalize_condition_exact_only(v0) ==
  IF v0 = <<>> THEN DEFAULT_CONDITION
  ELSE LET v == Lower(Strip(v0))
       IN IF v \in {C_new, C_preowned, C_parts} THEN v ELSE DEFAULT_CONDITION

normalize_condition(v0) ==
  IF v0 = <<>> THEN DEFAULT_CONDITION
  ELSE LET v == Lower(Strip(v0))
       IN IF v \in {C_new, C_preowned, C_parts} THEN v
          ELSE IF v \in {<<"u", "s", "e", "d">>, <<"v", "i", "n", "t", "a", "g", "e">>, <<"w", "o", "r", "n">>} THEN C_preowned
          ELSE IF v \in {<<"n", "w", "t">>, <<"n", "o", "s">>, <<"d", "e", "a", "d", "s", "t", "o", "c", "k">>} THEN C_new
          ELSE IF Contains(<<"p", "a", "r", "t">>, v) THEN C_parts
          ELSE DEFAULT_CONDITION

PRICE_FALLBACK == <<"3", "4", ".", "9", "9">>

\* str.split("-")[0]
BeforeHyphen(s) ==
  LET hy == {i \in DOMAIN s : s[i] = "-"}
  IN IF hy = {} THEN s ELSE Slice(s, 1, (CHOOSE i \in hy : \A j \in hy : i <= j) - 1)

IsDigitOrDot(c) == c = "." \/ \E i \in 1..10 : DIGITS[i] = c
\* str.replace("$", "")
DropDollar(s) == KeepAt(s, {i \in DOMAIN s : s[i] # "$"})

clean_price_whole_text(raw) ==
  IF raw = <<>> THEN PRICE_FALLBACK
  ELSE LET s == Strip(DropDollar(raw))
           kept == KeepAt(s, {i \in DOMAIN s : IsDigitOrDot(s[i])})
       IN IF kept = <<>> THEN PRICE_FALLBACK ELSE kept

clean_price(raw) ==
  IF raw = <<>> THEN PRICE_FALLBACK
  ELSE LET s == Strip(BeforeHyphen(DropDollar(raw)))
           kept == KeepAt(s, {i \in DOMAIN s : IsDigitOrDot(s[i])})
       IN IF kept = <<>> THEN PRICE_FALLBACK ELSE kept

limit_len(s, n) == Take(s, n)

\* [p for p in parts if p]
NonEmpty(parts) == KeepAt(parts, {i \in DOMAIN parts : parts[i] # <<>>})

build_title_all_parts(brand, title_raw, size, color) ==
  limit_len(Strip(Join(<<" ">>, <<brand, title_raw, size, color>>)), 79)

build_title(brand, title_raw, size, color) ==
  limit_len(Strip(Join(<<" ">>, NonEmpty(<<brand, title_raw, size, color>>))), 79)


\* ------------------------------------------------------------------------
\* State
VARIABLES
  \* deployment and request
  rev,        \* "v49" (action_handler.py) or "v58" (app.py)
  route,      \* requested route
  asyncOn,    \* HAS_ASYNC and ASYNC_CONCURRENCY > 1
  condition,  \* request argument "condition"
  ppi,        \* request argument "photos_per_item"
  \* the remote gallery
  galStatus,  \* HTTP status of the gallery GET
  galJsonOk,  \* body is valid JSON
  groups,     \* groups of the body: each a sequence of photo URLs
  \* progress of the request
  pc, gets, fetched, gi, results, called, tasks, ana, rows, resp,
  sem,        \* free slots of asyncio.Semaphore(ASYNC_CONCURRENCY)
  outcome,    \* what the model call handed back, per group index
  \* one call_gpt_sync / call_gpt_async invocation
  cpc, attempt, errs, waits, ncalls, cres,
  \* one helper function applied to one argument
  fn, arg, out

pipeVars == <<rev, route, asyncOn, condition, ppi, galStatus, galJsonOk, groups,
              pc, gets, fetched, gi, results, called, tasks, ana, rows, resp,
              sem, outcome>>
callVars == <<cpc, attempt, errs, waits, ncalls, cres>>
fnVars == <<fn, arg, out>>
vars == <<rev, route, asyncOn, condition, ppi, galStatus, galJsonOk, groups,
          pc, gets, fetched, gi, results, called, tasks, ana, rows, resp,
          sem, outcome, cpc, attempt, errs, waits, ncalls, cres, fn, arg, out>>

None == <<"None">>

\* ------------------------------------------------------------------------
\* call_gpt_sync / call_gpt_async: the retry loop around one model call
\* Response headers of an error: NoHeaders (attribute absent or empty dict)
\* or a sequence of <<key, value>>; a value parses as a float (half = its
\* value in half seconds) or does not (ok = FALSE, e.g. "6m0s").
NoHeaders == <<>>
H_REQ == "x-ratelimit-reset-requests"
H_TOK == "x-ratelimit-reset-tokens"
HVal(h) == [ok |-> TRUE, half |-> h]
HBad == [ok |-> FALSE, half |-> 0]
HeaderChoices == {
  NoHeaders,
  << <<H_REQ, HVal(2)>> >>,
  << <<H_REQ, HVal(120)>> >>,
  << <<H_REQ, HBad>>, <<H_TOK, HVal(40)>> >> }

HasKey(headers, key) == \E i \in DOMAIN headers : headers[i][1] = key
HGet(headers, key) == headers[CHOOSE i \in DOMAIN headers : headers[i][1] = key][2]

\* fallback formula: max(SLEEP_BETWEEN_BATCHES, 3.0) + attempt * 2   (half seconds)
FallbackWait(att) == Max2(SLEEP_BETWEEN_BATCHES, 6) + att * 4

wait_from_headers_decreasing(headers, att) ==
  Max2(SLEEP_BETWEEN_BATCHES, 6) + (MAX_RETRIES - att) * 4

\* _wait_from_headers, in half seconds
wait_from_headers(headers, att) ==
  IF headers = NoHeaders THEN FallbackWait(att)
  ELSE IF HasKey(headers, H_REQ) /\ HGet(headers, H_REQ).ok
       THEN Max2(HGet(headers, H_REQ).half, 4) + att * 3
  ELSE IF HasKey(headers, H_TOK) /\ HGet(headers, H_TOK).ok
       THEN Max2(HGet(headers, H_TOK).half, 4) + att * 3
  ELSE FallbackWait(att)

\* Errors the model client raises: what the error is, and str(e)
ErrorKinds == {
  [kind |-> "ratelimit", msg |-> <<"E", "r", "r", "o", "r", " ", "c", "o", "d", "e", ":", " ", "4", "2", "9">>],
  [kind |-> "ratelimit", msg |-> <<"R", "a", "t", "e", " ", "l", "i", "m", "i", "t", " ", "r", "e", "a", "c", "h", "e", "d">>],
  [kind |-> "server", msg |-> <<"E", "r", "r", "o", "r", " ", "c", "o", "d", "e", ":", " ", "5", "0", "0">>],
  [kind |-> "server", msg |-> <<"E", "r", "r", "o", "r", " ", "c", "o", "d", "e", ":", " ", "5", "0", "2">>],
  [kind |-> "server", msg |-> <<"E", "r", "r", "o", "r", " ", "c", "o", "d", "e", ":", " ", "5", "0", "3">>],
  [kind |-> "timeout", msg |-> <<"R", "e", "q", "u", "e", "s", "t", " ", "t", "i", "m", "e", "d", " ", "o", "u", "t", ".">>],
  [kind |-> "timeout", msg |-> <<"C", "o", "n", "n", "e", "c", "t", "i", "o", "n", " ", "t", "i", "m", "e", "o", "u", "t">>],
  [kind |-> "other", msg |-> <<"E", "r", "r", "o", "r", " ", "c", "o", "d", "e", ":", " ", "4", "0", "1">>]
}

IsRateLimitMsg(msg) ==
  Contains(<<"4", "2", "9">>, msg) \/ Contains(<<"R", "a", "t", "e", " ", "l", "i", "m", "i", "t">>, msg) \/ Contains(<<"t", "o", "k", "e", "n", "s", " ", "p", "e", "r", " ", "m", "i", "n">>, msg)
IsServerMsg(msg) ==
  Contains(<<"5", "0", "2">>, msg) \/ Contains(<<"5", "0", "0">>, msg) \/ Contains(<<"t", "i", "m", "e", "o", "u", "t">>, Lower(msg))

\* Replies of the model: the text of the message
ReplyKinds == {"full", "empty", "raw"}

CallInit ==
  /\ cpc = "calling" /\ attempt = 1 /\ errs = <<>> /\ waits = <<>>
  /\ ncalls = 0 /\ cres = None

\* client.chat.completions.create returns: the loop returns the reply
CallSucceeds ==
  /\ cpc = "calling"
  /\ \E r \in ReplyKinds : cres' = <<r>>
  /\ ncalls' = ncalls + 1
  /\ cpc' = "returned"
  /\ UNCHANGED <<attempt, errs, waits>>
  /\ UNCHANGED <<pipeVars, fnVars>>

\* the call raises: classify on str(e), then sleep-and-continue or return None
CallRaises ==
  /\ cpc = "calling"
  /\ \E e \in ErrorKinds, h \in HeaderChoices :
       \* headers are only looked at on the rate-limit branch
       /\ (~IsRateLimitMsg(e.msg)) => h = NoHeaders
       /\ errs' = Append(errs, [kind |-> e.kind, msg |-> e.msg, headers |-> h])
       /\ ncalls' = ncalls + 1
       /\ IF IsRateLimitMsg(e.msg)
          THEN /\ waits' = Append(waits, wait_from_headers(h, attempt))
               /\ cpc' = "sleeping"
               /\ cres' = cres
          ELSE IF IsServerMsg(e.msg)
          THEN /\ waits' = Append(waits, 4 * attempt)
               /\ cpc' = "sleeping"
               /\ cres' = cres
          ELSE /\ waits' = waits
               /\ cpc' = "returned"
               /\ cres' = None
  /\ UNCHANGED attempt
  /\ UNCHANGED <<pipeVars, fnVars>>

\* time.sleep(wait); continue: next iteration of range(1, MAX_RETRIES + 1),
\* or fall out of the loop and return None
CallWakes ==
  /\ cpc = "sleeping"
  /\ IF attempt < MAX_RETRIES
     THEN attempt' = attempt + 1 /\ cpc' = "calling" /\ cres' = cres
     ELSE attempt' = attempt /\ cpc' = "returned" /\ cres' = None
  /\ UNCHANGED <<errs, waits, ncalls>>
  /\ UNCHANGED <<pipeVars, fnVars>>


\* ------------------------------------------------------------------------
\* Photo URLs and the gallery
\* A URL is [scheme, host, path, ext]; Blank is an empty entry of the
\* comma-separated photo_urls string.
Url(s, h, p, e) == [scheme |-> s, host |-> h, path |-> p, ext |-> e]
Blank == Url("", "", "", "")
U1 == Url("https", "chatbay.site", "/a", ".jpg")
U1h == Url("http", "chatbay.site", "/a", ".jpg")
U2 == Url("https", "chatbay.site", "/my pic", ".PNG")
U3 == Url("https", "evil.example", "/c", ".jpg")

\* the URL as text
UrlText(u) == IF u = Blank THEN <<>> ELSE <<u.scheme, "://", u.host, u.path, u.ext>>

\* photo_urls of a group, already split on ","
GroupChoices == { <<>>, <<U1, U1, U2>>, <<U1h, Blank, U3>> }

RECURSIVE SeqsUpTo(_, _)
SeqsUpTo(S, n) ==
  IF n = 0 THEN {<<>>}
  ELSE LET shorter == SeqsUpTo(S, n - 1)
       IN shorter \cup {Append(q, x) : q \in {r \in shorter : Len(r) = n - 1}, x \in S}

Galleries == SeqsUpTo(GroupChoices, MaxGroups)

\* [u.strip() for u in str(g.get("photo_urls", "")).split(",") if u.strip()]
group_photos(g) == KeepAt(g, {i \in DOMAIN g : g[i] # Blank})

\* ------------------------------------------------------------------------
\* Analysis records (dicts): functions from the keys present to values
DictGet(a, k, default) == IF k \in DOMAIN a THEN a[k] ELSE default
\* a.get(k) or default
DictGetOr(a, k, default) ==
  IF k \in DOMAIN a /\ a[k] # <<>> THEN a[k] ELSE default
DictSet(a, k, v) == [x \in (DOMAIN a) \cup {k} |-> IF x = k THEN v ELSE a[x]]
EmptyDict == [x \in {} |-> <<>>]

\* keys the v4.9 prompt asks the model for, with the values of a full reply
Attrs49 == {"title", "category", "description", "price_estimate", "brand", "color", "material", "size", "features", "pattern"}
FullReply49 == [title |-> <<"L", "o", "g", "o", " ", "t", "e", "e">>,
  category |-> <<"V", "i", "n", "t", "a", "g", "e", " ", "H", "o", "o", "d", "i", "e">>,
  description |-> <<"S", "o", "f", "t", " ", "c", "o", "t", "t", "o", "n", ".">>,
  price_estimate |-> <<"$", "2", "0", "-", "$", "3", "5">>,
  brand |-> <<"N", "i", "k", "e">>,
  color |-> <<"r", "e", "d">>,
  material |-> <<"c", "o", "t", "t", "o", "n">>,
  size |-> <<"M">>,
  features |-> <<"z", "i", "p">>,
  pattern |-> <<"p", "l", "a", "i", "n">>]
RawText == <<"I cannot see the photos">>

\* json.loads of a reply that is a JSON object with the given keys
ReplyRecord49(keys) == [k \in keys |-> FullReply49[k]]

\* body of the per-group step shared by the sync loop and _one_async:
\* item is None or the reply of call_gpt_*
one_result(idx, photos, item) ==
  IF item = None
  THEN [group |-> idx, error |-> <<"Failed after retries">>, photos |-> photos]
  ELSE IF item = <<"raw">>
  THEN [group |-> idx, raw |-> RawText, photos |-> photos]
  ELSE IF item = <<"empty">>
  THEN DictSet(ReplyRecord49({}), "photos", photos)
  ELSE DictSet(ReplyRecord49(Attrs49), "photos", photos)

\* ------------------------------------------------------------------------
\* CSV builder of src/action_handler.py
SCHEDULE == <<"<next day 22:00 EST as UTC>">>
DASH == <<"-">>
Or(v, d) == IF v = <<>> THEN d ELSE v

desc_html49(title, desc_raw, brand, category_text, features, size, material) ==
  <<"<p><center><h4>">> \o title \o <<"</h4></center></p>\n<p>">> \o desc_raw
  \o <<"</p>\n<ul>\n<li>Brand: ">> \o Or(brand, DASH)
  \o <<"</li>\n<li>Category: ">> \o Or(category_text, DASH)
  \o <<"</li>\n<li>Features: ">> \o Or(features, DASH)
  \o <<"</li>\n<li>Size / Material: ">> \o Or(size, DASH) \o <<" / ">> \o Or(material, DASH)
  \o <<"</li>\n</ul>\n<p>Collector note: classic style with enduring appeal.</p>">>

\* photos[:max(1, min(12, photos_per_item))]
photo_cap(p) == Max2(1, Min2(12, p))

UrlTexts(photos) == [i \in DOMAIN photos |-> UrlText(photos[i])]

ebay_row_from_analysis(a, idx, photos_per_item, cond) ==
  LET title_raw == Strip(DictGetOr(a, "title", <<"I","t","e","m"," ">> \o IntToStr(idx)))
      desc_raw == Strip(DictGetOr(a, "description", <<"Collectible item.">>))
      category_text == DictGet(a, "category", <<>>)
      cat_id == match_category_id(category_text)
      price == clean_price(DictGet(a, "price_estimate", PRICE_FALLBACK))
      brand == Strip(DictGetOr(a, "brand", <<>>))
      color == Strip(DictGetOr(a, "color", <<>>))
      material == Strip(DictGetOr(a, "material", <<>>))
      size == Strip(DictGetOr(a, "size", <<>>))
      features == DictGet(a, "features", <<>>)
      pattern == DictGet(a, "pattern", <<>>)
      title == build_title(brand, title_raw, size, color)
      desc == desc_html49(title, desc_raw, brand, category_text, features, size, material)
      cond_id == MapGet(CONDITION_ID_MAP, normalize_condition(cond), 3000)
      photos == DictGetOr(a, "photos", <<>>)
      photo_urls == Join(<<",">>, UrlTexts(Take(photos, photo_cap(photos_per_item))))
  IN <<
    <<"Action(SiteID=US|Country=US|Currency=USD|Version=1193)", <<"Add">> >>,
    <<"Category ID", cat_id>>,
    <<"Category name", Or(category_text, <<"Other">>)>>,
    <<"Title", title>>,
    <<"Schedule Time", SCHEDULE>>,
    <<"Start price", price>>,
    <<"Quantity", <<"1">> >>,
    <<"Item photo URL", photo_urls>>,
    <<"Condition ID", IntToStr(cond_id)>>,
    <<"Description", desc>>,
    <<"Format", <<"FixedPrice">> >>,
    <<"Duration", <<"GTC">> >>,
    <<"Buy It Now price", price>>,
    <<"Immediate pay required", <<"1">> >>,
    <<"Location", DEFAULT_LOCATION>>,
    <<"Shipping profile name", DEFAULT_SHIP_PROFILE>>,
    <<"Return profile name", DEFAULT_RET_PROFILE>>,
    <<"Payment profile name", DEFAULT_PAY_PROFILE>>,
    <<"C:Brand", brand>>, <<"C:Color", color>>, <<"C:Material", material>>,
    <<"C:Size", size>>, <<"C:Pattern", pattern>>, <<"C:Features", features>>,
    <<"C:Vintage", <<"No">> >>
  >>

Keys(row) == [i \in DOMAIN row |-> row[i][1]]
RowGet(row, key) == MapGet(row, key, <<>>)

FIELDNAMES == Keys(ebay_row_from_analysis(EmptyDict, 1, 1, C_preowned))

\* csv.DictWriter(fieldnames=FIELDNAMES, extrasaction="ignore").writerow(row):
\* one cell per field name, "" for a missing key
DictWriterLine(row) == [i \in DOMAIN FIELDNAMES |-> RowGet(row, FIELDNAMES[i])]
HeaderLine(names) == [i \in DOMAIN names |-> <<names[i]>>]


\* ------------------------------------------------------------------------
\* src/app.py (v5.8): photo sanitizer
ALLOWED_HOSTS == {"chatbay.site"}
ALLOWED_EXTS == {".jpg", ".jpeg", ".png"}

\* str.lower() on the host names and extensions of the model's URLs
LowerTok(t) ==
  CASE t = "CHATBAY.SITE" -> "chatbay.site"
    [] t = ".PNG" -> ".png"
    [] t = ".JPG" -> ".jpg"
    [] OTHER -> t

\* urllib.parse.quote(path, safe="/._-") on the model's paths
QuotePath(p) == IF p = "/my pic" THEN "/my%20pic" ELSE p

httpsify(u) == IF u.scheme = "http" THEN [u EXCEPT !.scheme = "https"] ELSE u

\* what SESSION.head(u) does: raises, or answers with a status and a
\* Content-Type header
Probe(r, s, c) == [raised |-> r, status |-> s, ctype |-> c]

ensure_public_status_only(o) ==
  IF o.raised THEN FALSE ELSE o.status = 200

ensure_public(o) ==
  IF o.raised THEN FALSE
  ELSE IF o.status # 200 THEN FALSE
  ELSE Take(Lower(o.ctype), 6) = <<"i", "m", "a", "g", "e", "/">>

\* probeOk: ensure_public(url) answered 200 with an image/* content type
sanitize_photo_url(u, probeOk) ==
  IF u = Blank THEN Blank
  ELSE LET v == httpsify(u)
       IN IF v.host = "" \/ LowerTok(v.host) \notin ALLOWED_HOSTS THEN Blank
          ELSE IF LowerTok(v.ext) \notin ALLOWED_EXTS THEN Blank
          ELSE IF probeOk THEN Url("https", v.host, QuotePath(v.path), v.ext)
          ELSE Blank

RECURSIVE collect_loop(_, _, _, _, _)
collect_loop(urls, probes, i, cleaned, limit) ==
  IF i > Len(urls) THEN cleaned
  ELSE LET cu == sanitize_photo_url(urls[i], probes[i])
       IN IF cu # Blank /\ cu \notin Range(cleaned)
          THEN IF Len(cleaned) + 1 >= limit THEN Append(cleaned, cu)
               ELSE collect_loop(urls, probes, i + 1, Append(cleaned, cu), limit)
          ELSE collect_loop(urls, probes, i + 1, cleaned, limit)

\* probes[i]: outcome of the liveness probe of the i-th candidate
collect_item_photos(urls, max_photos, probes) ==
  collect_loop(urls, probes, 1, <<>>, Max2(1, Min2(12, max_photos)))

pipe_join(urls) == Join(<<"|">>, UrlTexts(urls))

\* ------------------------------------------------------------------------
\* src/app.py: vision analysis and the full-header row
Attrs58 == {"title", "category_guess", "brand", "color", "material", "size", "year_or_style", "short_description"}
FullReply58 == [title |-> <<"L", "o", "g", "o", " ", "t", "e", "e">>,
  category_guess |-> <<"H", "o", "o", "d", "i", "e">>,
  brand |-> <<"N", "i", "k", "e">>,
  color |-> <<"r", "e", "d">>,
  material |-> <<"c", "o", "t", "t", "o", "n">>,
  size |-> <<"M">>,
  year_or_style |-> <<"9", "0", "s">>,
  short_description |-> <<"S", "o", "f", "t", " ", "c", "o", "t", "t", "o", "n", ".">>]

\* item: None when client.chat.completions.create raised, else the reply.
\* No photos: {} without a model call. Any exception, and a reply that is
\* not a JSON object: {}.
analyze_images_with_vision(photo_urls, item) ==
  IF photo_urls = <<>> THEN EmptyDict
  ELSE IF item = <<"full">> THEN FullReply58
  ELSE EmptyDict

CATEGORY_MAP58 == <<
  <<<<"p", "a", "n", "t", "i", "e", "s">>, <<"1", "1", "5", "0", "7">>>>,
  <<<<"u", "n", "d", "e", "r", "w", "e", "a", "r">>, <<"1", "1", "5", "0", "7">>>>,
  <<<<"l", "i", "n", "g", "e", "r", "i", "e">>, <<"1", "1", "5", "1", "4">>>>,
  <<<<"t", "-", "s", "h", "i", "r", "t">>, <<"1", "5", "6", "8", "7">>>>,
  <<<<"s", "h", "i", "r", "t">>, <<"1", "5", "6", "8", "7">>>>,
  <<<<"t", "e", "e">>, <<"1", "5", "6", "8", "7">>>>,
  <<<<"s", "w", "e", "a", "t", "s", "h", "i", "r", "t">>, <<"1", "5", "5", "2", "2", "6">>>>,
  <<<<"h", "o", "o", "d", "i", "e">>, <<"1", "5", "5", "2", "2", "6">>>>,
  <<<<"j", "a", "c", "k", "e", "t">>, <<"5", "7", "9", "8", "8">>>>,
  <<<<"j", "e", "a", "n", "s">>, <<"1", "1", "4", "8", "3">>>>,
  <<<<"s", "h", "o", "r", "t", "s">>, <<"1", "5", "6", "9", "0">>>>,
  <<<<"p", "a", "n", "t", "s">>, <<"5", "7", "9", "8", "9">>>>,
  <<<<"b", "a", "g">>, <<"1", "6", "9", "2", "9", "1">>>>,
  <<<<"t", "o", "t", "e">>, <<"1", "6", "9", "2", "9", "1">>>>,
  <<<<"p", "a", "t", "c", "h">>, <<"1", "5", "6", "5", "2", "1">>>>,
  <<<<"b", "u", "t", "t", "o", "n">>, <<"1", "0", "9", "6", "0">>>>,
  <<<<"h", "a", "t">>, <<"1", "6", "3", "5", "7", "1">>>>,
  <<<<"c", "a", "p">>, <<"1", "6", "3", "5", "7", "1">>>>,
  <<<<"m", "a", "g", "a", "z", "i", "n", "e">>, <<"2", "8", "0">>>>,
  <<<<"b", "o", "o", "k">>, <<"2", "6", "1", "1", "8", "6">>>>
>>

FULL_HEADERS == <<
  "Action(SiteID=US|Country=US|Currency=USD|Version=1193)",
  "Custom label (SKU)",
  "Category ID",
  "Category name",
  "Title",
  "Relationship",
  "Relationship details",
  "Schedule Time",
  "P:UPC",
  "P:EPID",
  "Start price",
  "Quantity",
  "Item photo URL",
  "VideoID",
  "Condition ID",
  "Description",
  "Format",
  "Duration",
  "Buy It Now price",
  "Best Offer Enabled",
  "Best Offer Auto Accept Price",
  "Minimum Best Offer Price",
  "Immediate pay required",
  "Location",
  "Shipping service 1 option",
  "Shipping service 1 cost",
  "Shipping service 1 priority",
  "Shipping service 2 option",
  "Shipping service 2 cost",
  "Shipping service 2 priority",
  "Max dispatch time",
  "Returns accepted option",
  "Returns within option",
  "Refund option",
  "Return shipping cost paid by",
  "Shipping profile name",
  "Return profile name",
  "Payment profile name",
  "ProductCompliancePolicyID",
  "Regional ProductCompliancePolicies",
  "C:Style",
  "C:Brand",
  "C:Size Type",
  "C:Color",
  "C:Department",
  "C:Size",
  "C:Type",
  "C:Features",
  "C:Character",
  "C:Theme",
  "C:Material",
  "C:Fabric Type",
  "C:Pattern",
  "C:Vintage"
>>

clamp_title(t) == Take(Strip(t), 79)

pick_category_id(category_guess) ==
  MapGet(CATEGORY_MAP58, Lower(Strip(category_guess)), DEFAULT_CATEGORY)

build_desc_html(title, desc) ==
  <<"<p><center><h4>">> \o title \o <<"</h4></center></p><p>">> \o desc \o <<"</p>">>

SCHEDULE58 == <<"<next day 22:00 New York as UTC>">>
DEFAULT_SHIP_PROFILE58 == <<"ADV FREE 2 DAYS">>

\* fetch_median_sold_price(...) or 34.99, formatted {price:.2f}; EBAY_APP_ID
\* is empty by default, so no sold-price lookup is made
price58 == PRICE_FALLBACK

E == <<>>

\* the row literal (55 entries)
row_literal(analyzed, photos, cond) ==
  LET title == clamp_title(DictGetOr(analyzed, "title", <<>>))
      category_id == pick_category_id(DictGetOr(analyzed, "category_guess", <<>>))
      desc == build_desc_html(title, DictGet(analyzed, "short_description", <<>>))
      yos == Lower(DictGet(analyzed, "year_or_style", <<>>))
      vintage == IF Contains(<<"9", "0">>, yos) \/ Contains(<<"y", "2", "k">>, yos)
                 THEN <<"Yes">> ELSE <<>>
  IN <<
    <<"Add">>, E, category_id, E, title, E, E, SCHEDULE58, E, E,
    price58, <<"1">>, pipe_join(photos), E, IntToStr(MapGet(CONDITION_ID_MAP, cond, 3000)),
    desc, <<"FixedPrice">>, <<"GTC">>, E, E, E, E, E, DEFAULT_LOCATION, E, E, E, E, E, E, <<"2">>,
    E, E, E, E, E, DEFAULT_SHIP_PROFILE58, DEFAULT_RET_PROFILE, DEFAULT_PAY_PROFILE, E, E,
    DictGet(analyzed, "year_or_style", <<>>), DictGet(analyzed, "brand", <<>>), E,
    DictGet(analyzed, "color", <<>>), E, DictGet(analyzed, "size", <<>>),
    DictGet(analyzed, "category_guess", <<>>), E, E, E,
    DictGet(analyzed, "material", <<>>), E, E, vintage
  >>

row_from_item_unclamped(analyzed, photos, cond) == row_literal(analyzed, photos, cond)

\* pad with "" up to len(FULL_HEADERS), then row[:len(FULL_HEADERS)]
row_from_item(analyzed, photos, cond) ==
  LET row == row_literal(analyzed, photos, cond)
      n == Len(FULL_HEADERS)
  IN [i \in 1..n |-> IF i <= Len(row) THEN row[i] ELSE <<>>]

\* {h: row[i] if i < len(row) else "" for i, h in enumerate(FULL_HEADERS)}
preview_dict(row) ==
  [i \in DOMAIN FULL_HEADERS |-> <<FULL_HEADERS[i], IF i <= Len(row) THEN row[i] ELSE <<>> >>]


\* ------------------------------------------------------------------------
\* Requests
Routes49 == {"analyze_gallery", "export_csv", "preview_csv"}
Routes58 == {"gallery", "export_csv", "export_csv_text", "preview_csv"}
GalleryFailures == {404, 503}

ReqConditions == {<<"n", "e", "w">>, <<"N", "W", "T">>}
ReqPhotosPerItem == {0, 2}
DEFAULT_PHOTOS_PER_ITEM == 4

NoResp == [status |-> 0, kind |-> "none", lines |-> <<>>]
NoAna == [status |-> 0, body |-> <<>>]
ErrorResp(status) == [status |-> status, kind |-> "error", lines |-> <<>>]

\* no helper function is being applied
FnIdle == fn = "none" /\ arg = <<>> /\ out = <<>>

CallIdle ==
  /\ cpc = "idle" /\ attempt = 0 /\ errs = <<>> /\ waits = <<>>
  /\ ncalls = 0 /\ cres = None

Init ==
  /\ rev \in {"v49", "v58"}
  /\ route \in (IF rev = "v49" THEN Routes49 ELSE Routes58)
  /\ asyncOn \in (IF rev = "v49" THEN BOOLEAN ELSE {FALSE})
  /\ condition \in (IF route \in {"analyze_gallery", "gallery"}
                    THEN {DEFAULT_CONDITION} ELSE ReqConditions)
  /\ ppi \in (IF route \in {"analyze_gallery", "gallery"}
              THEN {DEFAULT_PHOTOS_PER_ITEM} ELSE ReqPhotosPerItem)
  /\ \/ galStatus = 200 /\ galJsonOk = TRUE /\ groups \in Galleries
     \/ galStatus = 200 /\ galJsonOk = FALSE /\ groups = <<>>
     \/ galStatus \in GalleryFailures /\ galJsonOk = TRUE /\ groups = <<>>
  /\ pc = "start" /\ gets = 0 /\ fetched = <<>> /\ gi = 0
  /\ results = <<>> /\ called = {} /\ tasks = <<>>
  /\ ana = NoAna /\ rows = <<>> /\ resp = NoResp
  /\ sem = 0 /\ outcome = <<>>
  /\ CallIdle
  /\ FnIdle

\* ------------------------------------------------------------------------
\* src/action_handler.py: /analyze_gallery (called directly, or by
\* _analyze_then_rows through an HTTP request to the same service)

\* what call_gpt_sync / call_gpt_async hands back: None or a reply
CallResults == {None} \cup {<<r>> : r \in ReplyKinds}

\* results.append(...) of the sync loop; the element _one_async returns
append_result_unless_failed(res, idx, photos, item) ==
  IF item = None THEN res ELSE Append(res, one_result(idx, photos, item))

append_result(res, idx, photos, item) == Append(res, one_result(idx, photos, item))

\* requests.get(gallery_url); status check; groups check
FetchGallery49 ==
  /\ rev = "v49" /\ pc = "start"
  /\ gets' = gets + 1
  /\ IF galStatus # 200
     THEN /\ ana' = [status |-> galStatus, body |-> <<>>]
          /\ pc' = "ana_done"
          /\ UNCHANGED <<fetched, gi, tasks, sem>>
     ELSE IF ~galJsonOk
     THEN /\ ana' = [status |-> 500, body |-> <<>>]
          /\ pc' = "ana_done"
          /\ UNCHANGED <<fetched, gi, tasks, sem>>
     ELSE IF groups = <<>>
     THEN /\ ana' = [status |-> 404, body |-> <<>>]
          /\ pc' = "ana_done"
          /\ UNCHANGED <<fetched, gi, tasks, sem>>
     ELSE /\ fetched' = groups
          /\ ana' = ana
          /\ IF asyncOn
             THEN /\ pc' = "async"
                  /\ gi' = gi
                  \* run_async: the gate, and one task per group that has photos
                  /\ sem' = ASYNC_CONCURRENCY
                  /\ tasks' = [i \in DOMAIN groups |->
                                 IF group_photos(groups[i]) = <<>>
                                 THEN [st |-> "skipped", res |-> <<>>]
                                 ELSE [st |-> "waiting", res |-> <<>>]]
             ELSE /\ pc' = "sync" /\ gi' = 1 /\ tasks' = tasks /\ sem' = sem
  /\ UNCHANGED <<rev, route, asyncOn, condition, ppi, galStatus, galJsonOk, groups,
                 outcome,
                 results, called, rows, resp>>
  /\ UNCHANGED <<callVars, fnVars>>

\* one iteration of the sync loops: idx = i + j runs over 1..total
SyncGroup ==
  /\ rev = "v49" /\ pc = "sync" /\ gi <= Len(fetched)
  /\ LET photos == group_photos(fetched[gi])
     IN IF photos = <<>>
        THEN UNCHANGED <<results, called, outcome>>
        ELSE \E item \in CallResults :
               /\ results' = append_result(results, gi, photos, item)
               /\ called' = called \cup {gi}
               /\ outcome' = outcome @@ (gi :> item)
  /\ gi' = gi + 1
  /\ UNCHANGED <<rev, route, asyncOn, condition, ppi, galStatus, galJsonOk, groups,
                 sem,
                 pc, gets, fetched, tasks, ana, rows, resp>>
  /\ UNCHANGED <<callVars, fnVars>>

\* return jsonify(results), 200
SyncDone ==
  /\ rev = "v49" /\ pc = "sync" /\ gi > Len(fetched)
  /\ ana' = [status |-> 200, body |-> results]
  /\ pc' = "ana_done"
  /\ UNCHANGED <<rev, route, asyncOn, condition, ppi, galStatus, galJsonOk, groups,
                 sem, outcome,
                 gets, fetched, gi, results, called, tasks, rows, resp>>
  /\ UNCHANGED <<callVars, fnVars>>

InGate == {i \in DOMAIN tasks : tasks[i].st = "in"}

\* async with sem: a task enters the gate when a slot is free
AsyncAcquire(t) ==
  /\ rev = "v49" /\ pc = "async"
  /\ t \in DOMAIN tasks /\ tasks[t].st = "waiting"
  /\ sem > 0
  /\ sem' = sem - 1
  /\ tasks' = [tasks EXCEPT ![t].st = "in"]
  /\ UNCHANGED <<rev, route, asyncOn, condition, ppi, galStatus, galJsonOk, groups,
                 outcome,
                 pc, gets, fetched, gi, results, called, ana, rows, resp>>
  /\ UNCHANGED <<callVars, fnVars>>

\* stagger delay, the retry loop of call_gpt_async, release of the gate,
\* and the rest of _one_async
AsyncFinish(t) ==
  /\ rev = "v49" /\ pc = "async"
  /\ t \in DOMAIN tasks /\ tasks[t].st = "in"
  /\ \E item \in CallResults :
       /\ tasks' = [tasks EXCEPT ![t] =
                      [st |-> "done",
                       res |-> append_result(<<>>, t, group_photos(fetched[t]), item)]]
       /\ outcome' = outcome @@ (t :> item)
  /\ called' = called \cup {t}
  /\ sem' = sem + 1
  /\ UNCHANGED <<rev, route, asyncOn, condition, ppi, galStatus, galJsonOk, groups,
                 pc, gets, fetched, gi, results, ana, rows, resp>>
  /\ UNCHANGED <<callVars, fnVars>>

RECURSIVE Gather_last_first(_, _)
Gather_last_first(ts, i) ==
  IF i > Len(ts) THEN <<>> ELSE Gather_last_first(ts, i + 1) \o ts[i].res

RECURSIVE Gather(_, _)
Gather(ts, i) ==
  IF i > Len(ts) THEN <<>> ELSE ts[i].res \o Gather(ts, i + 1)

\* [r for r in await asyncio.gather(*tasks) if r]; return jsonify(results), 200
AsyncGather ==
  /\ rev = "v49" /\ pc = "async"
  /\ \A i \in DOMAIN tasks : tasks[i].st \in {"done", "skipped"}
  /\ results' = Gather(tasks, 1)
  /\ ana' = [status |-> 200, body |-> results']
  /\ pc' = "ana_done"
  /\ UNCHANGED <<rev, route, asyncOn, condition, ppi, galStatus, galJsonOk, groups,
                 sem, outcome,
                 gets, fetched, gi, called, tasks, rows, resp>>
  /\ UNCHANGED <<callVars, fnVars>>

\* _analyze_then_rows(limit, photos_per_item, condition) on the analyzer's answer
analyze_then_rows(data, limit, photos_per_item, cond) ==
  LET d == IF limit = 0 THEN data ELSE Take(data, limit)
  IN [i \in DOMAIN d |-> ebay_row_from_analysis(d[i], i, photos_per_item, cond)]

\* the route returns: /analyze_gallery hands out the analyzer's answer;
\* /export_csv and /preview_csv raise on a non-200 analyzer answer (caught:
\* 500), else build the rows
Finish49 ==
  /\ rev = "v49" /\ pc = "ana_done"
  /\ pc' = "done"
  /\ IF route = "analyze_gallery"
     THEN /\ resp' = [status |-> ana.status,
                      kind |-> IF ana.status = 200 THEN "json_records" ELSE "error",
                      lines |-> ana.body]
          /\ rows' = rows
     ELSE IF ana.status # 200
     THEN /\ resp' = ErrorResp(500)
          /\ rows' = rows
     ELSE /\ rows' = analyze_then_rows(ana.body, IF route = "preview_csv" THEN 2 ELSE 0,
                                       ppi, normalize_condition(condition))
          /\ resp' = IF route = "preview_csv"
                     THEN [status |-> 200, kind |-> "json_rows", lines |-> rows']
                     ELSE [status |-> 200, kind |-> "attachment",
                           lines |-> <<HeaderLine(FIELDNAMES)>>
                                     \o [i \in DOMAIN rows' |-> DictWriterLine(rows'[i])]]
  /\ UNCHANGED <<rev, route, asyncOn, condition, ppi, galStatus, galJsonOk, groups,
                 sem, outcome,
                 gets, fetched, gi, results, called, tasks, ana>>
  /\ UNCHANGED <<callVars, fnVars>>


\* ------------------------------------------------------------------------
\* src/app.py routes

\* fetch_gallery_groups(): one GET; any failure is swallowed into []
fetch_gallery_groups == IF galStatus = 200 /\ galJsonOk THEN groups ELSE <<>>

Fetch58 ==
  /\ rev = "v58" /\ pc = "start"
  /\ gets' = gets + 1
  /\ IF route = "gallery"
     THEN /\ fetched' = fetch_gallery_groups
          /\ resp' = [status |-> 200, kind |-> "json_groups", lines |-> fetched']
          /\ pc' = "done"
          /\ gi' = gi
     ELSE /\ fetched' = IF route = "preview_csv" THEN Take(fetch_gallery_groups, 2)
                        ELSE fetch_gallery_groups
          /\ resp' = resp
          /\ pc' = "loop58"
          /\ gi' = 1
  /\ UNCHANGED <<rev, route, asyncOn, condition, ppi, galStatus, galJsonOk, groups,
                 sem, outcome,
                 results, called, tasks, ana, rows>>
  /\ UNCHANGED <<callVars, fnVars>>

\* one iteration of "for g in groups": collect photos, analyze, build the row
Item58 ==
  /\ rev = "v58" /\ pc = "loop58" /\ gi <= Len(fetched)
  /\ \E probes \in [DOMAIN fetched[gi] -> BOOLEAN], item \in CallResults :
       LET photos == collect_item_photos(fetched[gi], ppi, probes)
           analyzed == analyze_images_with_vision(photos, item)
           row == row_from_item(analyzed, photos, Lower(condition))
       IN /\ (photos = <<>>) => item = None
          /\ called' = IF photos = <<>> THEN called ELSE called \cup {gi}
          /\ results' = Append(results, analyzed)
          /\ rows' = Append(rows, IF route = "preview_csv" THEN preview_dict(row) ELSE row)
  /\ gi' = gi + 1
  /\ UNCHANGED <<rev, route, asyncOn, condition, ppi, galStatus, galJsonOk, groups,
                 sem, outcome,
                 pc, gets, fetched, tasks, ana, resp>>
  /\ UNCHANGED <<callVars, fnVars>>

\* after the loop. /export_csv builds csv_data, then evaluates
\* base64.b64encode: base64 is not imported, the NameError is caught by the
\* route's except clause
Finish58 ==
  /\ rev = "v58" /\ pc = "loop58" /\ gi > Len(fetched)
  /\ pc' = "done"
  /\ resp' = CASE route = "preview_csv" ->
                    [status |-> 200, kind |-> "json_rows", lines |-> rows]
               [] route = "export_csv_text" ->
                    [status |-> 200, kind |-> "json_csv",
                     lines |-> <<HeaderLine(FULL_HEADERS)>> \o rows]
               [] OTHER -> ErrorResp(500)
  /\ UNCHANGED <<rev, route, asyncOn, condition, ppi, galStatus, galJsonOk, groups,
                 sem, outcome,
                 gets, fetched, gi, results, called, tasks, ana, rows>>
  /\ UNCHANGED <<callVars, fnVars>>

\* ------------------------------------------------------------------------
Next ==
  \/ FetchGallery49
  \/ SyncGroup
  \/ SyncDone
  \/ \E t \in 1..MaxGroups : AsyncAcquire(t)
  \/ \E t \in 1..MaxGroups : AsyncFinish(t)
  \/ AsyncGather
  \/ Finish49
  \/ Fetch58
  \/ Item58
  \/ Finish58

Spec == Init /\ [][Next]_vars

\* one invocation of call_gpt_sync on its own
InitCall ==
  /\ rev = "v49" /\ route = "analyze_gallery" /\ asyncOn = FALSE
  /\ condition = DEFAULT_CONDITION /\ ppi = DEFAULT_PHOTOS_PER_ITEM
  /\ galStatus = 200 /\ galJsonOk = TRUE /\ groups = <<>>
  /\ pc = "call" /\ gets = 0 /\ fetched = <<>> /\ gi = 0
  /\ results = <<>> /\ called = {} /\ tasks = <<>>
  /\ ana = NoAna /\ rows = <<>> /\ resp = NoResp
  /\ sem = 0 /\ outcome = <<>>
  /\ CallInit
  /\ FnIdle

NextCall ==
  \/ CallSucceeds
  \/ CallRaises
  \/ CallWakes

SpecCall == InitCall /\ [][NextCall]_vars


\* ------------------------------------------------------------------------
\* The row builders on their own: one analysis record in, one row out
RowPhotosPerItem == {-1, 2, 13}
RowPhotos == {<<>>, <<U1, U1, U2>>}

Records49 ==
  {DictSet(ReplyRecord49(keys), "photos", ph) :
     keys \in SUBSET Attrs49, ph \in RowPhotos \ {<<>>}}
  \cup {one_result(1, ph, item) : ph \in RowPhotos \ {<<>>}, item \in {None, <<"raw">>}}

Records58 == {[k \in keys |-> FullReply58[k]] : keys \in SUBSET Attrs58}

InitRow ==
  /\ rev \in {"v49", "v58"}
  /\ route = (IF rev = "v49" THEN "export_csv" ELSE "export_csv_text")
  /\ asyncOn = FALSE
  /\ condition \in ReqConditions
  /\ ppi \in RowPhotosPerItem
  /\ galStatus = 200 /\ galJsonOk = TRUE /\ groups = <<>>
  /\ pc = "row" /\ gets = 0 /\ gi = 1
  /\ fetched \in (IF rev = "v49" THEN {<<>>} ELSE {<<ph>> : ph \in RowPhotos})
  /\ results \in (IF rev = "v49" THEN {<<a>> : a \in Records49}
                  ELSE {<<a>> : a \in Records58})
  /\ called = {} /\ tasks = <<>>
  /\ ana = NoAna /\ rows = <<>> /\ resp = NoResp
  /\ sem = 0 /\ outcome = <<>>
  /\ CallIdle
  /\ FnIdle

\* ebay_row_from_analysis on the record, and the CSV the route writes
BuildRow49 ==
  /\ rev = "v49" /\ pc = "row"
  /\ rows' = analyze_then_rows(results, 0, ppi, normalize_condition(condition))
  /\ resp' = [status |-> 200, kind |-> "attachment",
              lines |-> <<HeaderLine(FIELDNAMES)>>
                        \o [i \in DOMAIN rows' |-> DictWriterLine(rows'[i])]]
  /\ pc' = "row_done"
  /\ UNCHANGED <<rev, route, asyncOn, condition, ppi, galStatus, galJsonOk, groups,
                 sem, outcome,
                 gets, fetched, gi, results, called, tasks, ana>>
  /\ UNCHANGED <<callVars, fnVars>>

\* row_from_item on the record and the collected photos
BuildRow58 ==
  /\ rev = "v58" /\ pc = "row"
  /\ rows' = <<row_from_item(results[1], fetched[1], Lower(condition))>>
  /\ resp' = [status |-> 200, kind |-> "json_csv",
              lines |-> <<HeaderLine(FULL_HEADERS)>> \o rows']
  /\ pc' = "row_done"
  /\ UNCHANGED <<rev, route, asyncOn, condition, ppi, galStatus, galJsonOk, groups,
                 sem, outcome,
                 gets, fetched, gi, results, called, tasks, ana>>
  /\ UNCHANGED <<callVars, fnVars>>

NextRow ==
  \/ BuildRow49
  \/ BuildRow58

SpecRow == InitRow /\ [][NextRow]_vars
\* ------------------------------------------------------------------------
\* The helper functions on their own: one argument in, one value out

UpperCh(c) ==
  IF \E i \in 1..26 : LOWER[i] = c THEN UPPER[CHOOSE i \in 1..26 : LOWER[i] = c] ELSE c
Upper(s) == [i \in DOMAIN s |-> UpperCh(s[i])]
Padded(s) == <<" ">> \o s \o <<" ">>

\* values the "condition" request argument is given
ConditionWords ==
  {<<>>, <<"n", "e", "w">>, <<"p", "r", "e", "o", "w", "n", "e", "d">>,
   <<"p", "a", "r", "t", "s">>, <<"u", "s", "e", "d">>,
   <<"v", "i", "n", "t", "a", "g", "e">>, <<"w", "o", "r", "n">>,
   <<"n", "w", "t">>, <<"n", "o", "s">>,
   <<"d", "e", "a", "d", "s", "t", "o", "c", "k">>,
   <<"f", "o", "r", " ", "p", "a", "r", "t", "s", " ", "o", "n", "l", "y">>,
   <<"n", "e", "e", "d", "s", " ", "r", "e", "p", "a", "i", "r">>,
   <<"s", "p", "a", "r", "e", " ", "p", "a", "r", "t">>,
   <<"l", "i", "k", "e", " ", "n", "e", "w">>, <<"j", "u", "n", "k">>,
   <<"m", "i", "n", "t">>,
   <<"r", "e", "f", "u", "r", "b", "i", "s", "h", "e", "d">>,
   <<"b", "r", "a", "n", "d", " ", "n", "e", "w">>,
   <<"p", "a", "r", "t", "y">>}
ConditionInputs ==
  ConditionWords \cup {Upper(w) : w \in ConditionWords} \cup {Padded(w) : w \in ConditionWords}

\* price_estimate texts: every string over PriceChars up to MaxPriceLen
\* characters, and some longer ranges
MaxPriceLen == 4
PriceChars == {"$", "E", "2", "5", "-", ".", " "}
PriceExamples ==
  {<<"$", "2", "0", "-", "$", "3", "5">>,
   <<"$", "1", "2", ".", "5", "0", "-", "$", "2", "0">>,
   <<"E", "5", " ", "-", " ", "E", "9">>,
   <<"U", "S", "D", " ", "4", "0", "-", "6", "0">>,
   <<"$", "1", ",", "2", "0", "0", "-", "$", "1", ",", "5", "0", "0">>,
   <<"1", "5">>}
PriceInputs == SeqsUpTo(PriceChars, MaxPriceLen) \cup PriceExamples

\* listing attributes: brands of the lengths around the 79-character limit,
\* titles with and without an inner blank
Xs(n) == [i \in 1..n |-> "x"]
BrandLens == {0, 1, 2, 76, 77, 78, 79, 80}
TitleParts ==
  {<<>>, <<"t">>, <<"a", " ", "b">>, <<"I", "t", "e", "m", " ", "1">>,
   Xs(40) \o <<" ">> \o Xs(40)}
SizeParts == {<<>>, <<"M">>}
ColorParts == {<<>>, <<"r", "e", "d">>}
TitleInputs ==
  {<<Xs(n), t, s, c>> : n \in BrandLens, t \in TitleParts, s \in SizeParts, c \in ColorParts}
\* titles the model writes, as clamp_title receives them
ClampInputs ==
  {Xs(n) \o t : n \in BrandLens, t \in TitleParts}
  \cup {Padded(Xs(n)) : n \in BrandLens}

\* category texts the model writes
CategoryWords ==
  {<<>>, <<"h", "o", "o", "d", "i", "e">>,
   <<"v", "i", "n", "t", "a", "g", "e", " ", "h", "o", "o", "d", "i", "e">>,
   <<"s", "w", "e", "a", "t", "s", "h", "i", "r", "t">>,
   <<"t", "-", "s", "h", "i", "r", "t">>, <<"s", "h", "i", "r", "t">>,
   <<"g", "r", "a", "p", "h", "i", "c", " ", "t", "e", "e">>,
   <<"b", "l", "u", "e", " ", "j", "e", "a", "n", "s">>,
   <<"j", "e", "a", "n", "s">>,
   <<"c", "o", "f", "f", "e", "e", " ", "m", "u", "g">>,
   <<"b", "a", "s", "e", "b", "a", "l", "l", " ", "c", "a", "p">>,
   <<"h", "a", "t">>,
   <<"l", "e", "a", "t", "h", "e", "r", " ", "w", "a", "l", "l", "e", "t">>,
   <<"b", "o", "o", "k">>, <<"p", "a", "n", "t", "s">>,
   <<"m", "e", "n", "'", "s", " ", "s", "h", "o", "r", "t", "s">>,
   <<"t", "o", "t", "e", " ", "b", "a", "g">>,
   <<"p", "o", "s", "t", "e", "r">>}
CategoryInputs ==
  CategoryWords \cup {Upper(w) : w \in CategoryWords} \cup {Padded(w) : w \in CategoryWords}
  \cup {CATEGORY_MAP[i][1] : i \in DOMAIN CATEGORY_MAP}

\* candidate photo URLs and the answers of their liveness probes
MaxUrls == 2
UrlChoices ==
  {Blank, U1, U1h, U2, U3,
   Url("https", "CHATBAY.SITE", "/e", ".JPG"),
   Url("https", "chatbay.site", "/f", ".gif")}
ProbeChoices ==
  {Probe(FALSE, 200, <<"i", "m", "a", "g", "e", "/", "j", "p", "e", "g">>),
   Probe(FALSE, 200, <<"I", "m", "a", "g", "e", "/", "P", "N", "G">>),
   Probe(FALSE, 200, <<"t", "e", "x", "t", "/", "h", "t", "m", "l">>),
   Probe(FALSE, 404, <<"i", "m", "a", "g", "e", "/", "j", "p", "e", "g">>),
   Probe(TRUE, 0, <<>>)}
Candidates == {<<u, o>> : u \in UrlChoices, o \in ProbeChoices}
PhotoInputs ==
  {[urls |-> [i \in DOMAIN cs |-> cs[i][1]],
    probes |-> [i \in DOMAIN cs |-> cs[i][2]],
    max_photos |-> m] : cs \in SeqsUpTo(Candidates, MaxUrls), m \in {1, DEFAULT_PHOTOS_PER_ITEM}}

\* the arguments each helper is applied to
FnInputs ==
  [normalize_condition |-> ConditionInputs,
   clean_price |-> PriceInputs,
   build_title |-> TitleInputs,
   clamp_title |-> ClampInputs,
   match_category_id |-> CategoryInputs,
   pick_category_id |-> CategoryInputs,
   collect_item_photos |-> PhotoInputs]

InitFn ==
  /\ rev = "v49" /\ route = "export_csv" /\ asyncOn = FALSE
  /\ condition = DEFAULT_CONDITION /\ ppi = DEFAULT_PHOTOS_PER_ITEM
  /\ galStatus = 200 /\ galJsonOk = TRUE /\ groups = <<>>
  /\ pc = "fn" /\ gets = 0 /\ fetched = <<>> /\ gi = 0
  /\ results = <<>> /\ called = {} /\ tasks = <<>>
  /\ ana = NoAna /\ rows = <<>> /\ resp = NoResp
  /\ sem = 0 /\ outcome = <<>>
  /\ CallIdle
  /\ fn \in DOMAIN FnInputs
  /\ arg \in FnInputs[fn]
  /\ out = <<>>

\* the helper returns
Returns(value) ==
  /\ pc = "fn"
  /\ out' = value
  /\ pc' = "fn_done"
  /\ UNCHANGED <<rev, route, asyncOn, condition, ppi, galStatus, galJsonOk, groups,
                 gets, fetched, gi, results, called, tasks, ana, rows, resp,
                 sem, outcome, fn, arg>>
  /\ UNCHANGED callVars

ApplyNormalizeCondition ==
  /\ fn = "normalize_condition"
  /\ Returns(normalize_condition(arg))

ApplyCleanPrice ==
  /\ fn = "clean_price"
  /\ Returns(clean_price(arg))

ApplyBuildTitle ==
  /\ fn = "build_title"
  /\ Returns(build_title(arg[1], arg[2], arg[3], arg[4]))

ApplyClampTitle ==
  /\ fn = "clamp_title"
  /\ Returns(clamp_title(arg))

ApplyMatchCategoryId ==
  /\ fn = "match_category_id"
  /\ Returns(match_category_id(arg))

ApplyPickCategoryId ==
  /\ fn = "pick_category_id"
  /\ Returns(pick_category_id(arg))

\* collect_item_photos, each candidate going through sanitize_photo_url and
\* its probe through ensure_public
ApplyCollectItemPhotos ==
  /\ fn = "collect_item_photos"
  /\ Returns(collect_item_photos(arg.urls, arg.max_photos,
                                 [i \in DOMAIN arg.probes |-> ensure_public(arg.probes[i])]))

NextFn ==
  \/ ApplyNormalizeCondition
  \/ ApplyCleanPrice
  \/ ApplyBuildTitle
  \/ ApplyClampTitle
  \/ ApplyMatchCategoryId
  \/ ApplyPickCategoryId
  \/ ApplyCollectItemPhotos

SpecFn == InitFn /\ [][NextFn]_vars

\* ------------------------------------------------------------------------
\* The async path of /analyze_gallery step by step: each task's way through
\* call_gpt_async (gate, launch stagger, retry loop) and _one_async
ASYNC_SPREAD_DELAY == 4   \* tenths of a second

AsyncGroupChoices == { <<>>, <<U1>> }
AsyncGalleries == SeqsUpTo(AsyncGroupChoices, MaxGroups) \ {<<>>}

InitAsync ==
  /\ rev = "v49" /\ route = "analyze_gallery" /\ asyncOn = TRUE
  /\ condition = DEFAULT_CONDITION /\ ppi = DEFAULT_PHOTOS_PER_ITEM
  /\ galStatus = 200 /\ galJsonOk = TRUE /\ groups \in AsyncGalleries
  /\ pc = "start" /\ gets = 0 /\ fetched = <<>> /\ gi = 0
  /\ results = <<>> /\ called = {} /\ tasks = <<>>
  /\ ana = NoAna /\ rows = <<>> /\ resp = NoResp
  /\ sem = 0 /\ outcome = <<>>
  /\ CallIdle
  /\ FnIdle

\* tasks between "async with sem" and its exit
Inside == {i \in DOMAIN tasks : tasks[i].st \in {"stagger", "calling", "retry_wait"}}

\* what a task step leaves alone
TaskFrame ==
  /\ UNCHANGED <<rev, route, asyncOn, condition, ppi, galStatus, galJsonOk, groups,
                 pc, gets, fetched, gi, results, ana, rows, resp>>
  /\ UNCHANGED <<callVars, fnVars>>

\* async with sem: acquire a slot; then attempt0_sleep, if any
TaskEnter(t) ==
  /\ rev = "v49" /\ pc = "async"
  /\ t \in DOMAIN tasks /\ tasks[t].st = "waiting"
  /\ sem > 0
  /\ sem' = sem - 1
  /\ LET delay == (t % ASYNC_CONCURRENCY) * ASYNC_SPREAD_DELAY
     IN tasks' = [tasks EXCEPT ![t] =
                    IF delay > 0 THEN [st |-> "stagger", att |-> 0, res |-> <<>>]
                    ELSE [st |-> "calling", att |-> 1, res |-> <<>>]]
  /\ UNCHANGED <<called, outcome>>
  /\ TaskFrame

\* await asyncio.sleep(attempt0_sleep) is over: first iteration of the loop
TaskStaggerEnds(t) ==
  /\ rev = "v49" /\ pc = "async"
  /\ t \in DOMAIN tasks /\ tasks[t].st = "stagger"
  /\ tasks' = [tasks EXCEPT ![t] = [st |-> "calling", att |-> 1, res |-> <<>>]]
  /\ UNCHANGED <<sem, called, outcome>>
  /\ TaskFrame

\* call_gpt_async returns item (leaving "async with sem" releases the slot)
\* and _one_async builds the record
TaskReturns(t, item) ==
  /\ tasks' = [tasks EXCEPT ![t] =
                 [st |-> "done", att |-> 0,
                  res |-> append_result(<<>>, t, group_photos(fetched[t]), item)]]
  /\ sem' = sem + 1
  /\ called' = called \cup {t}
  /\ outcome' = outcome @@ (t :> item)
  /\ TaskFrame

\* the model call answers
TaskCallSucceeds(t) ==
  /\ rev = "v49" /\ pc = "async"
  /\ t \in DOMAIN tasks /\ tasks[t].st = "calling"
  /\ \E r \in ReplyKinds : TaskReturns(t, <<r>>)

\* the model call raises: sleep-and-continue, or return None
TaskCallRaises(t) ==
  /\ rev = "v49" /\ pc = "async"
  /\ t \in DOMAIN tasks /\ tasks[t].st = "calling"
  /\ \E e \in ErrorKinds :
       IF IsRateLimitMsg(e.msg) \/ IsServerMsg(e.msg)
       THEN /\ tasks' = [tasks EXCEPT ![t].st = "retry_wait"]
            /\ UNCHANGED <<sem, called, outcome>>
            /\ TaskFrame
       ELSE TaskReturns(t, None)

TaskWakes_keeping_slot(t) ==
  /\ rev = "v49" /\ pc = "async"
  /\ t \in DOMAIN tasks /\ tasks[t].st = "retry_wait"
  /\ IF tasks[t].att < MAX_RETRIES
     THEN /\ tasks' = [tasks EXCEPT ![t].st = "calling", ![t].att = tasks[t].att + 1]
          /\ UNCHANGED <<sem, called, outcome>>
          /\ TaskFrame
     ELSE /\ tasks' = [tasks EXCEPT ![t] =
                         [st |-> "done", att |-> 0,
                          res |-> append_result(<<>>, t, group_photos(fetched[t]), None)]]
          /\ called' = called \cup {t}
          /\ outcome' = outcome @@ (t :> None)
          /\ UNCHANGED sem
          /\ TaskFrame

\* the retry sleep is over: next iteration, or out of the loop with None
TaskWakes(t) ==
  /\ rev = "v49" /\ pc = "async"
  /\ t \in DOMAIN tasks /\ tasks[t].st = "retry_wait"
  /\ IF tasks[t].att < MAX_RETRIES
     THEN /\ tasks' = [tasks EXCEPT ![t].st = "calling", ![t].att = tasks[t].att + 1]
          /\ UNCHANGED <<sem, called, outcome>>
          /\ TaskFrame
     ELSE TaskReturns(t, None)

NextAsync ==
  \/ FetchGallery49
  \/ \E t \in 1..MaxGroups : TaskEnter(t)
  \/ \E t \in 1..MaxGroups : TaskStaggerEnds(t)
  \/ \E t \in 1..MaxGroups : TaskCallSucceeds(t)
  \/ \E t \in 1..MaxGroups : TaskCallRaises(t)
  \/ \E t \in 1..MaxGroups : TaskWakes(t)
  \/ AsyncGather
  \/ Finish49

\* the event loop runs every task that can run; a model call answers or
\* raises; a sleep ends
FairAsync ==
  /\ WF_vars(FetchGallery49)
  /\ \A t \in 1..MaxGroups :
       /\ WF_vars(TaskEnter(t))
       /\ WF_vars(TaskStaggerEnds(t))
       /\ WF_vars(TaskCallSucceeds(t) \/ TaskCallRaises(t))
       /\ WF_vars(TaskWakes(t))
  /\ WF_vars(AsyncGather)
  /\ WF_vars(Finish49)

SpecAsync == InitAsync /\ [][NextAsync]_vars /\ FairAsync

\* ------------------------------------------------------------------------
\* Properties

Done == pc = "done"
WithPhotos == {i \in DOMAIN groups : group_photos(groups[i]) # <<>>}
GalleryOk == galStatus = 200 /\ galJsonOk /\ groups # <<>>
HasToken(s, tok) == \E i \in DOMAIN s : s[i] = tok
ItemTitle(n) == <<"I", "t", "e", "m", " ">> \o IntToStr(n)
Failed(rec) == "error" \in DOMAIN rec

C2_RowPerGroup ==
  (Done /\ route \in {"export_csv", "export_csv_text"} /\ resp.status = 200 /\ GalleryOk) =>
    /\ Len(rows) = Len(groups)
    /\ Len(resp.lines) = 1 + Len(groups)

\* ------------------------------------------------------------------------
\* The retry loop (SpecCall)
NonDecreasing(s) == \A i \in 1..(Len(s) - 1) : s[i] <= s[i + 1]
AllRateLimit == \A i \in DOMAIN errs : errs[i].kind = "ratelimit"
SameHeaders == \A i, j \in DOMAIN errs : errs[i].headers = errs[j].headers
\* the loop has returned and its last model call did not raise
ReturnedAfterSuccess == cpc = "returned" /\ ncalls = Len(errs) + 1

\* C3 (as stated): rate-limit errors on the first k attempts (k < MAX_RETRIES)
\* and success on attempt k+1: the reply is returned, the loop slept exactly
\* k times, and the k waits are non-decreasing whatever headers the errors
\* carried.
C3_WaitsNonDecreasingAnyHeaders ==
  (ReturnedAfterSuccess /\ AllRateLimit /\ Len(errs) < MAX_RETRIES) =>
    /\ cres # None
    /\ Len(waits) = Len(errs)
    /\ NonDecreasing(waits)

\* C3 (amended): the same, for errors that all carry the same reset headers
\* (in particular none).
C3_WaitsNonDecreasingSameHeaders ==
  (ReturnedAfterSuccess /\ AllRateLimit /\ SameHeaders /\ Len(errs) < MAX_RETRIES) =>
    /\ cres # None
    /\ Len(waits) = Len(errs)
    /\ NonDecreasing(waits)

C3_Witness ==
  /\ ReturnedAfterSuccess /\ AllRateLimit /\ SameHeaders
  /\ Len(errs) = 2 /\ cres # None
  /\ Len(waits) = 2 /\ waits[1] < waits[2]

\* ------------------------------------------------------------------------
\* C4: with a gallery answer that has no groups, /export_csv answers with a
\* 404 error, sends nothing to the model and returns no CSV.
C4_EmptyGalleryIs404 ==
  (Done /\ route = "export_csv" /\ galStatus = 200 /\ galJsonOk /\ groups = <<>>) =>
    /\ resp.status = 404
    /\ resp.kind = "error"
    /\ resp.lines = <<>>
    /\ called = {}

\* the header row of the answer's CSV text
ActiveHeader == IF rev = "v49" THEN HeaderLine(FIELDNAMES) ELSE HeaderLine(FULL_HEADERS)

\* C6: with a fetched gallery of n >= 1 groups, /export_csv answers 200 with
\* CSV text (attachment or inline JSON): the active header, then n item rows.
C6_ExportSucceeds ==
  (Done /\ route = "export_csv" /\ GalleryOk) =>
    /\ resp.status = 200
    /\ resp.kind \in {"attachment", "json_csv"}
    /\ Len(resp.lines) = 1 + Len(groups)
    /\ resp.lines[1] = ActiveHeader

\* C7: /preview_csv sends at most 2 groups to the model and answers with at
\* most 2 rows.
C7_PreviewCapsGroups ==
  (route = "preview_csv") =>
    /\ Cardinality(called) <= 2
    /\ Len(rows) <= 2

\* C8: a failed gallery GET (non-200 status S, or a body that is not JSON)
\* makes the request fail at once: an error answer carrying S, after exactly
\* one GET and no model call, on /analyze_gallery and on the export routes.
C8_GalleryFailureSurfaces ==
  (Done /\ (galStatus # 200 \/ ~galJsonOk)
        /\ route \in {"analyze_gallery", "export_csv", "export_csv_text", "preview_csv"}) =>
    /\ resp.kind = "error"
    /\ (galStatus # 200) => resp.status = galStatus
    /\ gets = 1
    /\ called = {}

\* text.split(sep) on a string of tokens ("" gives no entry)
RECURSIVE SplitOn(_, _)
SplitOn(s, sep) ==
  IF s = <<>> THEN <<>>
  ELSE LET cuts == {i \in DOMAIN s : s[i] = sep}
       IN IF cuts = {} THEN <<s>>
          ELSE LET c == CHOOSE i \in cuts : \A j \in cuts : i <= j
               IN <<Slice(s, 1, c - 1)>> \o SplitOn(Slice(s, c + 1, Len(s)), sep)

NoDuplicates(list) == \A i, j \in DOMAIN list : list[i] = list[j] => i = j

\* the photo cell of an emitted row, split back into its URLs
PhotoCell(row) ==
  IF rev = "v49" THEN SplitOn(RowGet(row, "Item photo URL"), ",")
  ELSE IF route = "preview_csv" THEN SplitOn(RowGet(row, "Item photo URL"), "|")
  ELSE SplitOn(row[13], "|")

\* C9: the photo cell of every emitted row holds at most
\* max(1, min(12, photos_per_item)) URLs and no URL twice.
C9_PhotoCellCappedAndDistinct ==
  \A k \in DOMAIN rows :
    /\ Len(PhotoCell(rows[k])) <= Max2(1, Min2(12, ppi))
    /\ NoDuplicates(PhotoCell(rows[k]))

NewWords == {<<"n","e","w">>, <<"n","w","t">>, <<"n","o","s">>,
             <<"d","e","a","d","s","t","o","c","k">>}
PreownedWords == {<<"p","r","e","o","w","n","e","d">>, <<"u","s","e","d">>,
                  <<"v","i","n","t","a","g","e">>, <<"w","o","r","n">>}
PartsWords == {<<"p","a","r","t","s">>}

ConditionCell(row) ==
  IF rev = "v49" \/ route = "preview_csv" THEN RowGet(row, "Condition ID") ELSE row[15]

\* C10: the Condition ID of a row is the code of the bucket of the request's
\* condition: 1000 for new and its synonyms, 3000 for preowned and its
\* synonyms, 7000 for parts.
C10_ConditionIdOfBucket ==
  \A k \in DOMAIN rows :
    LET c == Lower(Strip(condition))
    IN /\ c \in NewWords => ConditionCell(rows[k]) = <<"1", "0", "0", "0">>
       /\ c \in PreownedWords => ConditionCell(rows[k]) = <<"3", "0", "0", "0">>
       /\ c \in PartsWords => ConditionCell(rows[k]) = <<"7", "0", "0", "0">>

\* ------------------------------------------------------------------------
\* The row builders (SpecRow)
RowBuilt == pc = "row_done"
ColumnOf(attr) == CASE attr = "brand" -> "C:Brand" [] attr = "color" -> "C:Color"
                    [] attr = "material" -> "C:Material" [] attr = "size" -> "C:Size"
                    [] attr = "pattern" -> "C:Pattern" [] attr = "features" -> "C:Features"
IndexOf(names, name) == CHOOSE i \in DOMAIN names : names[i] = name

Applied(name) == fn = name /\ pc = "fn_done"

\* the request's condition as normalize_condition reads it
Normalized(v) == Lower(Strip(v))

SynonymBucket(v) ==
  IF Normalized(v) \in NewWords THEN C_new
  ELSE IF Normalized(v) \in PreownedWords THEN C_preowned
  ELSE IF Normalized(v) \in PartsWords THEN C_parts
  ELSE DEFAULT_CONDITION

\* C11 as stated: new, preowned, parts and the listed synonyms (used, vintage,
\* worn; nwt, nos, deadstock) give their bucket, and every other input string
\* gives the configured default condition.
C11_OtherInputsGiveDefault ==
  Applied("normalize_condition") => out = SynonymBucket(arg)

\* C11 amended: the canonical words and the listed synonyms, read without
\* regard to case and surrounding blanks, give their bucket; every other input
\* containing "part" gives parts; every remaining input gives the default.
C11_BucketOrPartOrDefault ==
  Applied("normalize_condition") =>
    out = IF Normalized(arg) \in NewWords \cup PreownedWords \cup PartsWords
          THEN SynonymBucket(arg)
          ELSE IF Contains(<<"p", "a", "r", "t">>, Normalized(arg)) THEN C_parts
          ELSE DEFAULT_CONDITION

C11_Witness ==
  /\ Applied("normalize_condition")
  /\ arg = <<"s", "p", "a", "r", "e", " ", "p", "a", "r", "t">>
  /\ out = C_parts

\* C12: the precedence is exact canonical word, else synonym, else any input
\* containing "part" or "repair" gives parts, else the default; so
\* "for parts only" and "needs repair" both give parts.
C12_PartOrRepairGivesParts ==
  Applied("normalize_condition") =>
    out = IF Normalized(arg) \in NewWords \cup PreownedWords \cup PartsWords
          THEN SynonymBucket(arg)
          ELSE IF \/ Contains(<<"p", "a", "r", "t">>, Normalized(arg))
                  \/ Contains(<<"r", "e", "p", "a", "i", "r">>, Normalized(arg))
          THEN C_parts
          ELSE DEFAULT_CONDITION

\* the digits and decimal points that stand before the first hyphen, read
\* character by character
RECURSIVE LowEnd(_)
LowEnd(s) ==
  IF s = <<>> \/ Head(s) = "-" THEN <<>>
  ELSE IF IsDigitOrDot(Head(s)) THEN <<Head(s)>> \o LowEnd(Tail(s))
  ELSE LowEnd(Tail(s))

\* C13: clean_price gives the low end of a range stripped to digits and
\* decimal point ("$20-$35" gives "20"); the empty string, and a string with
\* no digit or decimal point before the first hyphen, give "34.99"; the result
\* is never empty.
C13_LowEndOrFallback ==
  Applied("clean_price") =>
    /\ out # <<>>
    /\ out = (IF LowEnd(arg) = <<>> THEN <<"3", "4", ".", "9", "9">> ELSE LowEnd(arg))
    /\ arg = <<"$", "2", "0", "-", "$", "3", "5">> => out = <<"2", "0">>

C13_Witness ==
  /\ Applied("clean_price")
  /\ arg = <<"$", "2", "0", "-", "$", "3", "5">>
  /\ out = <<"2", "0">>

\* the non-empty parts, each followed by one blank
RECURSIVE SpacedParts(_)
SpacedParts(parts) ==
  IF parts = <<>> THEN <<>>
  ELSE IF Head(parts) = <<>> THEN SpacedParts(Tail(parts))
  ELSE Head(parts) \o <<" ">> \o SpacedParts(Tail(parts))

\* the non-empty parts joined by single blanks
SpaceJoined(parts) ==
  LET sp == SpacedParts(parts) IN IF sp = <<>> THEN <<>> ELSE SubSeq(sp, 1, Len(sp) - 1)

LeadingSpace(s) == s # <<>> /\ s[1] = " "
TrailingSpace(s) == s # <<>> /\ s[Len(s)] = " "
DoubledSpace(s) == \E i \in 1..(Len(s) - 1) : s[i] = " " /\ s[i + 1] = " "

\* the text a title is cut from
TitleSource == IF fn = "build_title" THEN SpaceJoined(arg) ELSE Strip(arg)
TitleBuilt == Applied("build_title") \/ Applied("clamp_title")

RECURSIVE FirstKeywordCode(_, _, _)
FirstKeywordCode(table, k, text) ==
  IF k > Len(table) THEN <<"1", "5", "6", "8", "7">>
  ELSE IF Contains(table[k][1], Lower(text)) THEN table[k][2]
  ELSE FirstKeywordCode(table, k + 1, text)

\* C15: the category lookup of each row builder returns the code of the first
\* table keyword that is a case-insensitive substring of the text, and the
\* default 15687 when the text is empty or holds no keyword.
C15_FirstKeywordSubstring ==
  /\ Applied("match_category_id") => out = FirstKeywordCode(CATEGORY_MAP, 1, arg)
  /\ Applied("pick_category_id") => out = FirstKeywordCode(CATEGORY_MAP58, 1, arg)

\* ------------------------------------------------------------------------
\* The retry loop, continued (SpecCall)

\* C16: the model is called at most MAX_RETRIES times, and a retry wait is
\* entered only while the attempt counter is below MAX_RETRIES: after the
\* MAX_RETRIES-th failed attempt the call fails without sleeping again.
C16_NoWaitAfterLastAttempt ==
  /\ ncalls <= MAX_RETRIES
  /\ cpc = "sleeping" => attempt < MAX_RETRIES
  /\ Len(waits) <= MAX_RETRIES - 1

Transient(e) == e.kind \in {"ratelimit", "server", "timeout"}

\* C17: an error is retried exactly when it is transient: a rate-limit error,
\* a 5xx error or a timeout raised while attempts remain is followed by a
\* wait (and so by another call); any other error ends the call at once with
\* no wait and no further call.
C17_RetriedIffTransient ==
  \A i \in DOMAIN errs :
    /\ (Transient(errs[i]) /\ i < MAX_RETRIES) => Len(waits) >= i
    /\ ~Transient(errs[i]) =>
         /\ Len(waits) = i - 1 /\ ncalls = i
         /\ cpc = "returned" /\ cres = None

\* ------------------------------------------------------------------------
\* The async path (SpecAsync)

GateBounded ==
  pc = "async" =>
    /\ Cardinality(Inside) <= ASYNC_CONCURRENCY
    /\ sem = ASYNC_CONCURRENCY - Cardinality(Inside)

\* C18: at every moment at most ASYNC_CONCURRENCY tasks are inside the gate
\* (in their launch stagger, making a model call, or in a retry wait); a task
\* that succeeds, fails or runs out of retries has given its slot back; and
\* every task of a group with photos eventually runs to its end.
C18_GateBoundedAndEveryTaskRuns ==
  /\ []GateBounded
  /\ \A t \in 1..MaxGroups :
       (t \in DOMAIN tasks /\ tasks[t].st = "waiting")
         ~> (t \in DOMAIN tasks /\ tasks[t].st = "done")

C18_Witness ==
  /\ pc = "async"
  /\ Cardinality(Inside) = ASYNC_CONCURRENCY
  /\ \E t \in DOMAIN tasks : tasks[t].st = "waiting"
  /\ \E t \in Inside : tasks[t].st = "retry_wait" /\ tasks[t].att = MAX_RETRIES

\* ------------------------------------------------------------------------
\* The two paths of /analyze_gallery (Spec)

\* the records of the groups from i on, in group order: a function of the
\* groups and of what the model call handed back for each
RECURSIVE RecordsOf(_, _, _)
RecordsOf(gs, oc, i) ==
  IF i > Len(gs) THEN <<>>
  ELSE IF group_photos(gs[i]) = <<>> THEN RecordsOf(gs, oc, i + 1)
  ELSE <<one_result(i, group_photos(gs[i]), oc[i])>> \o RecordsOf(gs, oc, i + 1)

SyncRan == gi > 0
AsyncRan == tasks # <<>>

\* C19: a request runs exactly one of the two paths, and the list it returns
\* is the same function of the groups and the per-group outcomes on either
\* path: same length, order, group indices and fields.
C19_PathsReturnSameRecords ==
  rev = "v49" =>
    /\ ~(SyncRan /\ AsyncRan)
    /\ pc \in {"sync", "async"} => (AsyncRan <=> asyncOn) /\ (SyncRan <=> ~asyncOn)
    /\ (pc \in {"ana_done", "done"} /\ ana.status = 200) =>
         /\ SyncRan # AsyncRan
         /\ AsyncRan <=> asyncOn
         /\ ana.body = RecordsOf(fetched, outcome, 1)

C19_Witness ==
  /\ rev = "v49" /\ asyncOn /\ pc = "done" /\ route = "analyze_gallery"
  /\ resp.status = 200 /\ Len(resp.lines) = 3
  /\ outcome[1] = <<"full">> /\ outcome[2] = None /\ outcome[3] = <<"raw">>

\* ------------------------------------------------------------------------
\* The photo sanitizer (SpecFn)

\* the probe answered 200 with an image content type
ProbeFine(o) ==
  /\ ~o.raised /\ o.status = 200
  /\ Len(o.ctype) >= 6 /\ Lower(SubSeq(o.ctype, 1, 6)) = <<"i", "m", "a", "g", "e", "/">>

\* the candidates whose probe was fine, and their probes
FineAt(a) == {i \in DOMAIN a.urls : ProbeFine(a.probes[i])}

Cell(name) == rows[1][IndexOf(FULL_HEADERS, name)]

\* C21: in the row of row_from_item every derived value stands under its own
\* column of FULL_HEADERS (the three profile names, brand, color, size,
\* material, the vintage flag), and the row as written, before padding and
\* truncation, has exactly len(FULL_HEADERS) entries.
C21_ValuesUnderTheirColumns ==
  (RowBuilt /\ rev = "v58") =>
    LET a == results[1]
        yos == Lower(DictGet(a, "year_or_style", <<>>))
    IN /\ Len(row_literal(a, fetched[1], Lower(condition))) = Len(FULL_HEADERS)
       /\ Cell("Shipping profile name") = DEFAULT_SHIP_PROFILE58
       /\ Cell("Return profile name") = DEFAULT_RET_PROFILE
       /\ Cell("Payment profile name") = DEFAULT_PAY_PROFILE
       /\ Cell("C:Brand") = DictGet(a, "brand", <<>>)
       /\ Cell("C:Color") = DictGet(a, "color", <<>>)
       /\ Cell("C:Size") = DictGet(a, "size", <<>>)
       /\ Cell("C:Material") = DictGet(a, "material", <<>>)
       /\ Cell("C:Vintage") = (IF Contains(<<"9", "0">>, yos) \/ Contains(<<"y", "2", "k">>, yos)
                               THEN <<"Yes">> ELSE <<>>)

\* ------------------------------------------------------------------------
\* The category table (SpecFn)

\* C22: every keyword of CATEGORY_MAP, looked up as a text of its own, gives
\* the code the table holds for it: no keyword is shadowed by an earlier
\* keyword that is a substring of it.
C22_KeywordGivesItsOwnCode ==
  \A i \in DOMAIN CATEGORY_MAP :
    (Applied("match_category_id") /\ arg = CATEGORY_MAP[i][1]) => out = CATEGORY_MAP[i][2]
====
